---- MODULE Spec2Model ----
(***************************************************************************)
(* microdot: the Graph command engine (graph.rs) and the GraphViz exporter *)
(* it drives (graphviz.rs).                                                *)
(*                                                                         *)
(* Id and Label wrap a String.  A String is modelled as the sequence of    *)
(* its characters (one-character strings), so that formatting and         *)
(* escaping are computed character by character; Join turns a character   *)
(* sequence into the text of a message or of an output line.               *)
(***************************************************************************)
EXTENDS Integers, Sequences, FiniteSets, TLC

(* ------------------------------ bounds --------------------------------- *)
\* InsertNode is enabled while fewer than MaxNodeIds node ids were issued.
MaxNodeIds == 2
\* LinkEdge creates an edge while fewer than MaxEdgeIds edge ids were issued.
MaxEdgeIds == 2
\* One GraphVizExporter value is asked to export at most MaxExports times.
MaxExports == 2
MaxReads == 2
MaxOtherWrites == 1

(* ------------------------------ strings -------------------------------- *)
RECURSIVE Join(_)
Join(s) == IF s = <<>> THEN "" ELSE Head(s) \o Join(Tail(s))

Digit(d) == CASE d = 0 -> "0" [] d = 1 -> "1" [] d = 2 -> "2" [] d = 3 -> "3"
              [] d = 4 -> "4" [] d = 5 -> "5" [] d = 6 -> "6" [] d = 7 -> "7"
              [] d = 8 -> "8" [] d = 9 -> "9"

\* `{}` of a usize: its decimal digits, most significant first.
RECURSIVE Decimal(_)
Decimal(k) == IF k < 10 THEN <<Digit(k)>> ELSE Decimal(k \div 10) \o <<Digit(k % 10)>>

\* str::replace(pat, with) for a one-character pattern.
RECURSIVE replace(_, _, _)
replace(s, pat, with) ==
    IF s = <<>> THEN <<>>
    ELSE (IF Head(s) = pat THEN with ELSE <<Head(s)>>) \o replace(Tail(s), pat, with)

(* ------------------------------ inputs --------------------------------- *)
Labels == { <<"a", "b", "c">>, <<"d", "e", "f">> }

\* Ids a command may name: the node ids the model issues (n0 .. below
\* MaxNodeIds) and one node id that is never issued, hence never present.
NodeIdInputs == { <<"n">> \o Decimal(k) : k \in 0..MaxNodeIds }

\* Ids an UnlinkEdge may name: the edge ids issued and one never issued.
EdgeIdInputs == { <<"e">> \o Decimal(k) : k \in 0..MaxEdgeIds }

(* ------------------------------- state --------------------------------- *)
VARIABLES
    node_high_water,   \* Graph.node_high_water
    edge_high_water,   \* Graph.edge_high_water
    nodes,             \* Graph.nodes: Vec<Node>
    edges,             \* Graph.edges: Vec<Edge>
    command,           \* the GraphCommand of the last apply_command call
    result,            \* the CommandResult it returned
    issued_nodes,      \* ids returned by next_node_id, in call order
    issued_edges,      \* ids returned by next_edge_id, in call order
    scenario,          \* how many commands of Scenario the history so far matches
    exporter,          \* the live GraphVizExporter, or NoExporter
    calls,             \* Exporter callbacks of the live exporter's last Graph::export
    outputs,           \* Strings the live exporter's export calls returned, in order
    del,               \* the DeleteNode in progress inside apply_command, or NoDelete
    pc,                \* where the session thread is in repl / compile_graph
    site,              \* which compile_graph call is running: "top" or "dirty"
    readline,          \* the value interaction.read returned in this iteration
    dirty,             \* the `dirty` of this iteration
    status,            \* how repl ended: running, or [end, cause]
    logged,            \* what interaction.log received in this iteration, in order
    stream,            \* Exporter callbacks delivered so far by the running export
    json_file,         \* content of the json file
    dot_file,          \* content of the sibling dot file
    svg_exists,        \* whether the sibling svg file exists
    compile_result,    \* the CommandResult of the last compile_dot call
    highlighted,       \* ids of the nodes highlighted by the last search
    writer,            \* the thread holding the RwLock's write guard, or "none"
    readers,           \* the threads holding a read guard
    poisoned,          \* the RwLock's poison flag
    reads,             \* lines read by the session so far
    other_writes       \* write guards taken by the other thread so far

graph == <<node_high_water, edge_high_water, nodes, edges>>
vars == <<node_high_water, edge_high_water, nodes, edges, command, result,
          issued_nodes, issued_edges, scenario, exporter, calls, outputs, del,
          pc, site, readline, dirty, status, logged, stream, json_file, dot_file,
          svg_exists, compile_result, highlighted, writer, readers, poisoned,
          reads, other_writes>>

\* What apply_command reads and writes.
engine == <<node_high_water, edge_high_water, nodes, edges, command, result,
            issued_nodes, issued_edges, scenario, exporter, calls, outputs>>

\* The session loop's own state.
repl_vars == <<pc, site, readline, dirty, status, logged, stream, json_file, dot_file,
               svg_exists, compile_result, highlighted, writer, readers, poisoned,
               reads, other_writes>>

\* What the command engine and the exporter do not touch.
session == <<del, repl_vars>>

NoCommand == [op |-> "None"]
NoExporter == [alive |-> FALSE]
NoDelete == [active |-> FALSE]
Running == [end |-> "running"]
NoFile == [exists |-> FALSE]

(* ------------------------------ Graph ---------------------------------- *)
\* Option<usize>: None is 0, Some(idx) is the 1-based position idx.
None == 0

RECURSIVE find_idx(_, _, _)
find_idx(v, id, i) ==
    IF i > Len(v) THEN None
    ELSE IF v[i].id = id THEN i ELSE find_idx(v, id, i + 1)

find_edge_idx(es, id) == find_idx(es, id, 1)

find_node_idx(ns, id) == find_idx(ns, id, 1)

\* Vec::remove(idx)
remove(v, idx) == SubSeq(v, 1, idx - 1) \o SubSeq(v, idx + 1, Len(v))

\* Vec::contains
contains(v, x) == \E i \in 1..Len(v) : v[i] = x

\* A bug next_node_id could have: numbering by the nodes now stored.
next_node_id_by_len(hw) == <<"n">> \o Decimal(Len(nodes))

\* next_node_id formats the counter; the caller stores the incremented counter.
next_node_id(hw) == <<"n">> \o Decimal(hw)

next_edge_id(hw) == <<"e">> \o Decimal(hw)

\* A bug the first loop could have: only the edges leaving id are collected.
RECURSIVE edges_touching_from_only(_, _, _, _)
edges_touching_from_only(es, id, i, acc) ==
    IF i > Len(es) THEN acc
    ELSE IF es[i].from = id /\ ~contains(acc, es[i].id)
         THEN edges_touching_from_only(es, id, i + 1, Append(acc, es[i].id))
         ELSE edges_touching_from_only(es, id, i + 1, acc)

\* The first loop of DeleteNode: ids of the edges touching id, deduplicated.
RECURSIVE edges_touching(_, _, _, _)
edges_touching(es, id, i, acc) ==
    IF i > Len(es) THEN acc
    ELSE IF (es[i].from = id \/ es[i].to = id) /\ ~contains(acc, es[i].id)
         THEN edges_touching(es, id, i + 1, Append(acc, es[i].id))
         ELSE edges_touching(es, id, i + 1, acc)

\* A bug the second loop could have: the listed edges are never removed.
delete_edges_skipped(es, dels, i) == es

\* The second loop of DeleteNode: remove each listed edge that is still found.
RECURSIVE delete_edges(_, _, _)
delete_edges(es, dels, i) ==
    IF i > Len(dels) THEN es
    ELSE IF find_edge_idx(es, dels[i]) # None
         THEN delete_edges(remove(es, find_edge_idx(es, dels[i])), dels, i + 1)
         ELSE delete_edges(es, dels, i + 1)

(* --------------------------- scenario history -------------------------- *)
Scenario ==
    << [op |-> "InsertNode", label |-> <<"a", "b", "c">>],
       [op |-> "InsertNode", label |-> <<"d", "e", "f">>],
       [op |-> "LinkEdge", from |-> <<"n", "0">>, to |-> <<"n", "1">>],
       [op |-> "DeleteNode", id |-> <<"n", "0">>] >>

Off == 0 - 1

\* scenario = k: exactly k commands were applied since Graph::new() and they
\* are the first k of Scenario; Off: the history is something else.
scenario_step(cmd) ==
    IF scenario # Off /\ scenario < Len(Scenario) /\ Scenario[scenario + 1] = cmd
    THEN scenario + 1 ELSE Off

(* --------------------------- apply_command ----------------------------- *)
\* What every apply_command call does around the match arm.
Applied(cmd, msg) ==
    /\ exporter = NoExporter
    /\ command' = cmd
    /\ result' = msg
    /\ scenario' = scenario_step(cmd)
    /\ calls' = <<>>
    /\ outputs' = <<>>
    /\ UNCHANGED exporter

InsertNode(label) ==
    LET id == next_node_id(node_high_water) IN
    /\ node_high_water < MaxNodeIds
    /\ node_high_water' = node_high_water + 1
    /\ issued_nodes' = Append(issued_nodes, id)
    /\ nodes' = Append(nodes, [id |-> id, label |-> label])
    /\ Applied([op |-> "InsertNode", label |-> label],
               "inserted node " \o Join(id) \o ": '" \o Join(label) \o "'")
    /\ UNCHANGED <<edge_high_water, edges, issued_edges>>

DeleteNode(id) ==
    LET idx == find_node_idx(nodes, id) IN
    /\ IF idx # None
       THEN /\ edges' = delete_edges(edges, edges_touching(edges, id, 1, <<>>), 1)
            /\ nodes' = remove(nodes, idx)
            /\ Applied([op |-> "DeleteNode", id |-> id],
                       "node " \o Join(id) \o " removed")
       ELSE /\ UNCHANGED <<nodes, edges>>
            /\ Applied([op |-> "DeleteNode", id |-> id],
                       "node " \o Join(id) \o " not found")
    /\ UNCHANGED <<node_high_water, edge_high_water, issued_nodes, issued_edges>>

\* A bug LinkEdge could have: the target is looked up before the source,
\* and an edge is created although its target is missing.
LinkEdge_target_first(from, to) ==
    LET cmd == [op |-> "LinkEdge", from |-> from, to |-> to]
        id == next_edge_id(edge_high_water) IN
    IF find_node_idx(nodes, to) = None
    THEN /\ Applied(cmd, "target node " \o Join(to) \o " not found")
         /\ UNCHANGED <<graph, issued_nodes, issued_edges>>
    ELSE IF find_node_idx(nodes, from) = None
    THEN /\ Applied(cmd, "source node " \o Join(from) \o " not found")
         /\ UNCHANGED <<graph, issued_nodes, issued_edges>>
    ELSE /\ edge_high_water < MaxEdgeIds
         /\ edge_high_water' = edge_high_water + 1
         /\ issued_edges' = Append(issued_edges, id)
         /\ edges' = Append(edges, [id |-> id, from |-> from, to |-> to])
         /\ Applied(cmd, "Added edge " \o Join(id) \o " from " \o Join(from)
                         \o " to " \o Join(to))
         /\ UNCHANGED <<node_high_water, nodes, issued_nodes>>

\* A bug LinkEdge could have: only the source is validated.
LinkEdge_unchecked_target(from, to) ==
    LET cmd == [op |-> "LinkEdge", from |-> from, to |-> to]
        id == next_edge_id(edge_high_water) IN
    IF find_node_idx(nodes, from) = None
    THEN /\ Applied(cmd, "source node " \o Join(from) \o " not found")
         /\ UNCHANGED <<graph, issued_nodes, issued_edges>>
    ELSE /\ edge_high_water < MaxEdgeIds
         /\ edge_high_water' = edge_high_water + 1
         /\ issued_edges' = Append(issued_edges, id)
         /\ edges' = Append(edges, [id |-> id, from |-> from, to |-> to])
         /\ Applied(cmd, "Added edge " \o Join(id) \o " from " \o Join(from)
                         \o " to " \o Join(to))
         /\ UNCHANGED <<node_high_water, nodes, issued_nodes>>

LinkEdge(from, to) ==
    LET cmd == [op |-> "LinkEdge", from |-> from, to |-> to]
        id == next_edge_id(edge_high_water) IN
    IF find_node_idx(nodes, from) = None
    THEN /\ Applied(cmd, "source node " \o Join(from) \o " not found")
         /\ UNCHANGED <<graph, issued_nodes, issued_edges>>
    ELSE IF find_node_idx(nodes, to) = None
    THEN /\ Applied(cmd, "target node " \o Join(to) \o " not found")
         /\ UNCHANGED <<graph, issued_nodes, issued_edges>>
    ELSE /\ edge_high_water < MaxEdgeIds
         /\ edge_high_water' = edge_high_water + 1
         /\ issued_edges' = Append(issued_edges, id)
         /\ edges' = Append(edges, [id |-> id, from |-> from, to |-> to])
         /\ Applied(cmd, "Added edge " \o Join(id) \o " from " \o Join(from)
                         \o " to " \o Join(to))
         /\ UNCHANGED <<node_high_water, nodes, issued_nodes>>

\* A bug RenameNode could have: the label is written to the first node.
RenameNode_first(id, label) ==
    LET cmd == [op |-> "RenameNode", id |-> id, label |-> label]
        idx == find_node_idx(nodes, id) IN
    /\ IF idx # None
       THEN /\ nodes' = [nodes EXCEPT ![1].label = label]
            /\ Applied(cmd, "Node " \o Join(id) \o " renamed to '"
                            \o Join(label) \o "'")
       ELSE /\ UNCHANGED nodes
            /\ Applied(cmd, "Could not find node " \o Join(id))
    /\ UNCHANGED <<node_high_water, edge_high_water, edges, issued_nodes, issued_edges>>

RenameNode(id, label) ==
    LET cmd == [op |-> "RenameNode", id |-> id, label |-> label]
        idx == find_node_idx(nodes, id) IN
    /\ IF idx # None
       THEN IF idx \in 1..Len(nodes)
            THEN /\ nodes' = [nodes EXCEPT ![idx].label = label]
                 /\ Applied(cmd, "Node " \o Join(id) \o " renamed to '"
                                 \o Join(label) \o "'")
            ELSE /\ UNCHANGED nodes
                 /\ Applied(cmd, "Could not find node at index "
                                 \o Join(Decimal(idx - 1)))
       ELSE /\ UNCHANGED nodes
            /\ Applied(cmd, "Could not find node " \o Join(id))
    /\ UNCHANGED <<node_high_water, edge_high_water, edges, issued_nodes, issued_edges>>

\* A bug UnlinkEdge could have: an unknown id removes the oldest edge.
UnlinkEdge_oldest(id) ==
    LET cmd == [op |-> "UnlinkEdge", id |-> id]
        idx == find_edge_idx(edges, id) IN
    /\ IF idx # None
       THEN /\ edges' = remove(edges, idx)
            /\ Applied(cmd, "edge " \o Join(id) \o " removed")
       ELSE /\ edges' = (IF edges = <<>> THEN <<>> ELSE Tail(edges))
            /\ Applied(cmd, "edge " \o Join(id) \o " not found")
    /\ UNCHANGED <<node_high_water, edge_high_water, nodes, issued_nodes, issued_edges>>

UnlinkEdge(id) ==
    LET cmd == [op |-> "UnlinkEdge", id |-> id]
        idx == find_edge_idx(edges, id) IN
    /\ IF idx # None
       THEN /\ edges' = remove(edges, idx)
            /\ Applied(cmd, "edge " \o Join(id) \o " removed")
       ELSE /\ UNCHANGED edges
            /\ Applied(cmd, "edge " \o Join(id) \o " not found")
    /\ UNCHANGED <<node_high_water, edge_high_water, nodes, issued_nodes, issued_edges>>

apply_command ==
    \/ \E label \in Labels : InsertNode(label)
    \/ \E id \in NodeIdInputs : DeleteNode(id)
    \/ \E from \in NodeIdInputs, to \in NodeIdInputs : LinkEdge(from, to)
    \/ \E id \in NodeIdInputs, label \in Labels : RenameNode(id, label)
    \/ \E id \in EdgeIdInputs : UnlinkEdge(id)

(* ------------------------- Graph::export ------------------------------- *)
\* One Exporter callback: the method called and the arguments passed.
node_calls(ns) == [i \in 1..Len(ns) |->
                     [fn |-> "add_node", args |-> <<ns[i].id, ns[i].label>>]]

edge_calls(es) == [i \in 1..Len(es) |->
                     [fn |-> "add_edge", args |-> <<es[i].from, es[i].to>>]]

\* Graph::export: the callbacks it makes on the exporter, in order.
Graph_export(ns, es) == node_calls(ns) \o edge_calls(es)

(* ------------------------- GraphVizExporter ---------------------------- *)
WrapWidth == 40

\* textwrap::fill: a text without line breaks that fits the width is one
\* line and comes back unchanged.  Longer texts are outside the model.
fill(text, width) == CASE Len(text) <= width /\ ~contains(text, "\n") -> text

escape_label(label) ==
    <<"\"">> \o replace(replace(label, "\n", <<"\\", "n", " ">>), "\"", <<"\\", "\"">>)
             \o <<"\"">>

escape_id(id) == <<"\"">> \o replace(id, "\"", <<"\\", "\"">>) \o <<"\"">>

colors(name) == CASE name = "lemonade" -> "#FFDD99"
                  [] name = "martinique" -> "#242D48"

\* template.dot, cut at its three placeholders.
template == <<"digraph {", "${NODE_COLOR}", "${NODE_FONT_COLOR}", "${INNER_CONTENT}", "}">>

\* GraphVizExporter::new()
GraphVizExporter_new == [alive |-> TRUE, inner_content |-> "", debug_mode |-> TRUE,
                         exports |-> 0]

add_node(self, id, label) ==
    LET label_text == IF self.debug_mode
                      THEN fill(id \o <<":", " ">> \o label, WrapWidth)
                      ELSE label
        line == "    " \o Join(escape_id(id)) \o " [label="
                       \o Join(escape_label(label_text)) \o "];\n"
    IN [self EXCEPT !.inner_content = @ \o line]

add_edge(self, id, from, to) ==
    LET edge_label == IF self.debug_mode THEN " [label=" \o Join(id) \o "]" ELSE ""
        line == "    " \o Join(escape_id(from)) \o " -> " \o Join(escape_id(to))
                       \o edge_label \o ";\n"
    IN [self EXCEPT !.inner_content = @ \o line]

\* Graph::export passes add_edge two arguments (from, to) where the method
\* takes (id, from, to): the id it formats is then the empty string.
missing_id == <<>>

dispatch(self, call) ==
    IF call.fn = "add_node" THEN add_node(self, call.args[1], call.args[2])
    ELSE IF Len(call.args) = 3
         THEN add_edge(self, call.args[1], call.args[2], call.args[3])
         ELSE add_edge(self, missing_id, call.args[1], call.args[2])

RECURSIVE deliver(_, _, _)
deliver(self, cs, i) ==
    IF i > Len(cs) THEN self ELSE deliver(dispatch(self, cs[i]), cs, i + 1)

\* String::replace on the template: every occurrence of a placeholder.
replace_placeholder(t, placeholder, with) ==
    [i \in 1..Len(t) |-> IF t[i] = placeholder THEN with ELSE t[i]]

\* The String that GraphVizExporter::export returns for the exporter
\* state left by graph.export(self).
content(self) ==
    Join(replace_placeholder(
           replace_placeholder(
             replace_placeholder(template, "${NODE_COLOR}", colors("lemonade")),
             "${NODE_FONT_COLOR}", colors("martinique")),
           "${INNER_CONTENT}", self.inner_content))

\* let mut exporter = GraphVizExporter::new();
NewExporter ==
    /\ exporter = NoExporter
    /\ exporter' = GraphVizExporter_new
    /\ UNCHANGED <<graph, command, result, issued_nodes, issued_edges, scenario,
                   calls, outputs>>

\* exporter.export(&graph)
GraphVizExporter_export ==
    LET cs == Graph_export(nodes, edges)
        after == deliver(exporter, cs, 1) IN
    /\ exporter # NoExporter
    /\ exporter.exports < MaxExports
    /\ calls' = cs
    /\ exporter' = [after EXCEPT !.exports = @ + 1]
    /\ outputs' = Append(outputs, content(after))
    /\ UNCHANGED <<graph, command, result, issued_nodes, issued_edges, scenario>>

\* The exporter goes out of scope.
DropExporter ==
    /\ exporter # NoExporter
    /\ exporter' = NoExporter
    /\ calls' = <<>>
    /\ outputs' = <<>>
    /\ UNCHANGED <<graph, command, result, issued_nodes, issued_edges, scenario>>

Init ==
    /\ node_high_water = 0
    /\ edge_high_water = 0
    /\ nodes = <<>>
    /\ edges = <<>>
    /\ command = NoCommand
    /\ result = ""
    /\ issued_nodes = <<>>
    /\ issued_edges = <<>>
    /\ scenario = 0
    /\ exporter = NoExporter
    /\ calls = <<>>
    /\ outputs = <<>>
    /\ del = NoDelete
    /\ pc = "read"
    /\ site = "top"
    /\ readline = [kind |-> "None"]
    /\ dirty = FALSE
    /\ status = Running
    /\ logged = <<>>
    /\ stream = <<>>
    /\ json_file = NoFile
    /\ dot_file = NoFile
    /\ svg_exists = FALSE
    /\ compile_result = ""
    /\ highlighted = {}
    /\ writer = "none"
    /\ readers = {}
    /\ poisoned = FALSE
    /\ reads = 0
    /\ other_writes = 0

\* The command engine alone.
Next ==
    \/ (\E label \in Labels : InsertNode(label)) /\ UNCHANGED session
    \/ (\E id \in NodeIdInputs : DeleteNode(id)) /\ UNCHANGED session
    \/ (\E from \in NodeIdInputs, to \in NodeIdInputs : LinkEdge(from, to))
          /\ UNCHANGED session
    \/ (\E id \in NodeIdInputs, label \in Labels : RenameNode(id, label))
          /\ UNCHANGED session
    \/ (\E id \in EdgeIdInputs : UnlinkEdge(id)) /\ UNCHANGED session

Spec == Init /\ [][Next]_vars

\* The command engine with render passes between the commands.
NextExport ==
    \/ Next
    \/ NewExporter /\ UNCHANGED session
    \/ GraphVizExporter_export /\ UNCHANGED session
    \/ DropExporter /\ UNCHANGED session

SpecExport == Init /\ [][NextExport]_vars



(* ----------------------------- the session ----------------------------- *)
\* The GraphCommands the session's input can hold.
ReplGraphCommands ==
    { [op |-> "InsertNode", label |-> <<"a", "b", "c">>],
      [op |-> "DeleteNode", id |-> <<"n", "0">>],
      [op |-> "LinkEdge", from |-> <<"n", "0">>, to |-> <<"n", "0">>],
      [op |-> "LinkEdge", from |-> <<"n", "0">>, to |-> <<"n", "1">>],
      [op |-> "RenameNode", id |-> <<"n", "0">>, label |-> <<"d", "e", "f">>],
      [op |-> "UnlinkEdge", id |-> <<"e", "0">>] }

\* enum Command, as parse_line returns it.
ReplCommands ==
    { [op |-> "GraphCommand", c |-> c] : c \in ReplGraphCommands }
    \cup { [op |-> "Search", sub_label |-> <<"a">>],
           [op |-> "RenameNodeUnlabelled", id |-> <<"n", "0">>],
           [op |-> "ParseError", line |-> <<"?">>] }
    \cup { [op |-> o] : o \in {"ShowHelp", "PrintDot", "PrintJson", "Save", "Show", "Exit"} }

\* rustyline::Result<String>, the line already parsed.
Readlines ==
    { [kind |-> "Ok", command |-> c] : c \in ReplCommands }
    \cup { [kind |-> k] : k \in {"Interrupted", "Eof", "Err"} }

\* The input offers a command that issues an id only while the id counters
\* are below their bounds.
Offered(r) ==
    IF r.kind = "Ok" /\ r.command.op = "GraphCommand"
    THEN /\ r.command.c.op = "InsertNode" => node_high_water < MaxNodeIds
         /\ r.command.c.op = "LinkEdge" => edge_high_water < MaxEdgeIds
    ELSE TRUE

files == <<json_file, dot_file, svg_exists, compile_result>>
lock == <<writer, readers, poisoned>>

\* RwLock: write() returns once there is no guard, read() once no write guard.
write_available == writer = "none" /\ readers = {}
read_available == writer = "none"

\* repl returns or unwinds.
Ended(end, cause) ==
    /\ pc' = "done"
    /\ status' = [end |-> end, cause |-> cause]

\* JsonExporter::export_json: the document built from the callbacks, keeping
\* id and label of the nodes and the arguments of the edge callbacks.
export_json(cs) ==
    [nodes |-> SelectSeq(cs, LAMBDA c : c.fn = "add_node"),
     edges |-> SelectSeq(cs, LAMBDA c : c.fn = "add_edge")]

\* GraphVizExporter::export_dot on a new exporter, from the callbacks.
export_dot(cs) == content(deliver(GraphVizExporter_new, cs, 1))

\* Graph::highlight_search_results: the nodes whose label contains sub_label.
highlight_search_results(ns, sub_label) ==
    { ns[i].id : i \in { j \in 1..Len(ns) :
        \E k \in 1..Len(ns[j].label) :
            SubSeq(ns[j].label, k, k + Len(sub_label) - 1) = sub_label } }

\* let readline = interaction.read(">> ");
Read ==
    /\ pc = "read"
    /\ reads < MaxReads
    /\ reads' = reads + 1
    /\ \E r \in Readlines : Offered(r) /\ readline' = r
    /\ logged' = <<>>
    /\ pc' = "cg_lock"
    /\ site' = "top"
    /\ UNCHANGED <<other_writes, engine, del, dirty, status, stream, files,
                   highlighted, lock>>

\* A compile_graph that checks the lock but exports without keeping a guard.
CompileLock_unguarded ==
    /\ pc = "cg_lock"
    /\ write_available
    /\ IF poisoned
       THEN Ended("Err", "lock")
       ELSE pc' = "cg_json" /\ UNCHANGED status
    /\ stream' = <<>>
    /\ UNCHANGED <<reads, other_writes, engine, del, site, readline, dirty, logged,
                   files, highlighted, lock>>

\* compile_graph: graph.write(); a poisoned lock returns Err out of repl.
CompileLock ==
    /\ pc = "cg_lock"
    /\ write_available
    /\ IF poisoned
       THEN Ended("Err", "lock") /\ UNCHANGED writer
       ELSE writer' = "session" /\ pc' = "cg_json" /\ UNCHANGED status
    /\ stream' = <<>>
    /\ UNCHANGED <<reads, other_writes, engine, del, site, readline, dirty, logged,
                   files, highlighted, readers, poisoned>>

\* One callback of a Graph::export that the session runs.
ExportCallback ==
    /\ pc \in {"cg_json", "cg_dot", "print"}
    /\ Len(stream) < Len(Graph_export(nodes, edges))
    /\ stream' = Append(stream, Graph_export(nodes, edges)[Len(stream) + 1])
    /\ UNCHANGED <<reads, other_writes, engine, del, pc, site, readline, dirty,
                   status, logged, files, highlighted, lock>>

\* A save_dot_file that goes on to the dot file when the json write failed.
WriteJson_failure_ignored ==
    /\ pc = "cg_json"
    /\ Len(stream) >= Len(Graph_export(nodes, edges))
    /\ \E ok \in BOOLEAN :
         IF ok
         THEN json_file' = [exists |-> TRUE, content |-> export_json(stream)]
         ELSE UNCHANGED json_file
    /\ pc' = "cg_dot"
    /\ stream' = <<>>
    /\ UNCHANGED <<reads, other_writes, engine, del, site, readline, dirty, status,
                   logged, dot_file, svg_exists, compile_result, highlighted, lock>>

\* save_dot_file: std::fs::write(json_file, json)?
WriteJson ==
    /\ pc = "cg_json"
    /\ Len(stream) >= Len(Graph_export(nodes, edges))
    /\ \E ok \in BOOLEAN :
         IF ok
         THEN /\ json_file' = [exists |-> TRUE, content |-> export_json(stream)]
              /\ pc' = "cg_dot"
              /\ UNCHANGED <<status, writer>>
         ELSE /\ Ended("Err", "write")
              /\ writer' = "none"
              /\ UNCHANGED json_file
    /\ stream' = <<>>
    /\ UNCHANGED <<reads, other_writes, engine, del, site, readline, dirty, logged,
                   dot_file, svg_exists, compile_result, highlighted, readers,
                   poisoned>>

\* save_dot_file: std::fs::write(&interactive_dot_file, interactive_dot)?
WriteDot ==
    /\ pc = "cg_dot"
    /\ Len(stream) >= Len(Graph_export(nodes, edges))
    /\ \E ok \in BOOLEAN :
         IF ok
         THEN /\ dot_file' = [exists |-> TRUE, content |-> export_dot(stream)]
              /\ pc' = "cg_compile"
              /\ UNCHANGED <<status, writer>>
         ELSE /\ Ended("Err", "write")
              /\ writer' = "none"
              /\ UNCHANGED dot_file
    /\ stream' = <<>>
    /\ UNCHANGED <<reads, other_writes, engine, del, site, readline, dirty, logged,
                   json_file, svg_exists, compile_result, highlighted, readers,
                   poisoned>>

\* Interaction::should_compile of the Editor.
should_compile == TRUE

\* compile_dot: the message for the two graphviz::compile results.
compile_dot(svg_ok, png_ok) ==
    IF svg_ok /\ png_ok THEN "compiled interactive dot"
    ELSE IF ~svg_ok THEN "failed to compile interactive dot to svg"
    ELSE "failed to compile interactive dot to png"

\* compile_graph after save_dot_file: compile_dot is called and what it
\* returns is dropped; the guard is dropped and Ok(()) returned.
CompileDot ==
    /\ pc = "cg_compile"
    /\ IF should_compile
       THEN \E svg_ok \in BOOLEAN, png_ok \in BOOLEAN :
              /\ compile_result' = compile_dot(svg_ok, png_ok)
              /\ svg_exists' = (svg_exists \/ svg_ok)
       ELSE UNCHANGED <<compile_result, svg_exists>>
    /\ writer' = "none"
    /\ pc' = (IF site = "top" THEN "match" ELSE "read")
    /\ UNCHANGED <<reads, other_writes, engine, del, site, readline, dirty, status,
                   logged, stream, json_file, dot_file, highlighted, readers,
                   poisoned>>

\* A ParseError arm that returns the error out of repl.
ParseErrorArm_returns_err ==
    /\ Ended("Err", "parse")
    /\ UNCHANGED <<dirty, logged>>

\* Command::ParseError { .. }: log the hint, not dirty.
ParseErrorArm ==
    /\ logged' = Append(logged, "could not understand command; try 'h' for help")
    /\ dirty' = FALSE
    /\ pc' = "dirty"
    /\ UNCHANGED status

\* match readline / match command, for the arms that take no lock.
Match ==
    /\ pc = "match"
    /\ UNCHANGED <<reads, other_writes, engine, del, site, readline, stream, files,
                   highlighted, lock>>
    /\ CASE readline.kind = "Interrupted" ->
              /\ logged' = Append(logged, "CTRL-C")
              /\ Ended("Ok", "interrupted")
              /\ UNCHANGED dirty
         [] readline.kind = "Eof" ->
              /\ logged' = Append(logged, "CTRL-D")
              /\ Ended("Ok", "eof")
              /\ UNCHANGED dirty
         [] readline.kind = "Err" ->
              /\ logged' = Append(logged, "Error: Err")
              /\ Ended("Err", "readline")
              /\ UNCHANGED dirty
         [] readline.kind = "Ok" ->
              CASE readline.command.op \in {"GraphCommand", "Search", "PrintDot", "PrintJson"} ->
                     /\ pc' = "arm_lock"
                     /\ UNCHANGED <<dirty, status, logged>>
                [] readline.command.op = "ShowHelp" ->
                     /\ logged' = Append(logged, "help.txt")
                     /\ dirty' = FALSE
                     /\ pc' = "dirty"
                     /\ UNCHANGED status
                [] readline.command.op = "RenameNodeUnlabelled" ->
                     /\ dirty' = FALSE
                     /\ pc' = "dirty"
                     /\ UNCHANGED <<status, logged>>
                [] readline.command.op = "Show" ->
                     IF svg_exists
                     THEN /\ logged' = Append(logged, "open_in_gapplin")
                          /\ dirty' = FALSE
                          /\ pc' = "dirty"
                          /\ UNCHANGED status
                     ELSE /\ Ended("Panic", "canonicalize")
                          /\ UNCHANGED <<dirty, logged>>
                [] readline.command.op = "Save" ->
                     /\ logged' = Append(logged, "saving to json_file")
                     /\ dirty' = TRUE
                     /\ pc' = "dirty"
                     /\ UNCHANGED status
                [] readline.command.op = "ParseError" -> ParseErrorArm
                [] readline.command.op = "Exit" ->
                     /\ Ended("Ok", "exit")
                     /\ UNCHANGED <<dirty, logged>>

\* Arms that take the guard out of a poisoned lock and carry on.
ArmLock_ignores_poison ==
    /\ pc = "arm_lock"
    /\ IF readline.command.op \in {"GraphCommand", "Search"}
       THEN /\ write_available
            /\ writer' = "session" /\ pc' = "arm" /\ UNCHANGED <<status, readers>>
       ELSE /\ read_available
            /\ readers' = readers \cup {"session"} /\ pc' = "print"
            /\ UNCHANGED <<status, writer>>
    /\ stream' = <<>>
    /\ UNCHANGED <<reads, other_writes, engine, del, site, readline, dirty, logged,
                   files, highlighted, poisoned>>

\* graph.write().unwrap() of the GraphCommand and Search arms,
\* graph.read().unwrap() of the PrintDot and PrintJson arms.
ArmLock ==
    /\ pc = "arm_lock"
    /\ IF readline.command.op \in {"GraphCommand", "Search"}
       THEN /\ write_available
            /\ IF poisoned
               THEN Ended("Panic", "lock") /\ UNCHANGED <<writer, readers>>
               ELSE writer' = "session" /\ pc' = "arm" /\ UNCHANGED <<status, readers>>
       ELSE /\ read_available
            /\ IF poisoned
               THEN Ended("Panic", "lock") /\ UNCHANGED <<writer, readers>>
               ELSE readers' = readers \cup {"session"} /\ pc' = "print"
                    /\ UNCHANGED <<status, writer>>
    /\ stream' = <<>>
    /\ UNCHANGED <<reads, other_writes, engine, del, site, readline, dirty, logged,
                   files, highlighted, poisoned>>

\* A GraphCommand arm whose write guard outlives the match.
ArmGraphCommand_keeps_guard ==
    /\ pc = "arm"
    /\ readline.command.op = "GraphCommand"
    /\ LET c == readline.command.c IN
         \/ c.op = "InsertNode" /\ InsertNode(c.label)
         \/ c.op = "DeleteNode" /\ DeleteNode(c.id)
         \/ c.op = "LinkEdge" /\ LinkEdge(c.from, c.to)
         \/ c.op = "RenameNode" /\ RenameNode(c.id, c.label)
         \/ c.op = "UnlinkEdge" /\ UnlinkEdge(c.id)
    /\ logged' = Append(logged, "(" \o result' \o ")")
    /\ dirty' = TRUE
    /\ pc' = "dirty"
    /\ UNCHANGED <<reads, other_writes, del, site, readline, status, stream, files,
                   highlighted, lock>>

\* The GraphCommand arm under the write guard: apply, log, drop the guard.
ArmGraphCommand ==
    /\ pc = "arm"
    /\ readline.command.op = "GraphCommand"
    /\ LET c == readline.command.c IN
         \/ c.op = "InsertNode" /\ InsertNode(c.label)
         \/ c.op = "DeleteNode" /\ DeleteNode(c.id)
         \/ c.op = "LinkEdge" /\ LinkEdge(c.from, c.to)
         \/ c.op = "RenameNode" /\ RenameNode(c.id, c.label)
         \/ c.op = "UnlinkEdge" /\ UnlinkEdge(c.id)
    /\ logged' = Append(logged, "(" \o result' \o ")")
    /\ dirty' = TRUE
    /\ writer' = "none"
    /\ pc' = "dirty"
    /\ UNCHANGED <<reads, other_writes, del, site, readline, status, stream, files,
                   highlighted, readers, poisoned>>

\* The Search arm under the write guard.
ArmSearch ==
    /\ pc = "arm"
    /\ readline.command.op = "Search"
    /\ highlighted' = highlight_search_results(nodes, readline.command.sub_label)
    /\ logged' = Append(logged, "(search results highlighted)")
    /\ dirty' = TRUE
    /\ writer' = "none"
    /\ pc' = "dirty"
    /\ UNCHANGED <<reads, other_writes, engine, del, site, readline, status, stream,
                   files, readers, poisoned>>

\* The PrintDot and PrintJson arms once the export under the read guard is
\* complete: log the output and the notice, drop the guard.
ArmPrint ==
    /\ pc = "print"
    /\ Len(stream) >= Len(Graph_export(nodes, edges))
    /\ logged' = (IF readline.command.op = "PrintDot"
                  THEN logged \o <<export_dot(stream), "Dot printed">>
                  ELSE logged \o <<export_json(stream), "Json printed">>)
    /\ dirty' = FALSE
    /\ readers' = readers \ {"session"}
    /\ stream' = <<>>
    /\ pc' = "dirty"
    /\ UNCHANGED <<reads, other_writes, engine, del, site, readline, status, files,
                   highlighted, writer, poisoned>>

\* if dirty { compile_graph(..)? } and the next iteration.
IfDirty ==
    /\ pc = "dirty"
    /\ IF dirty
       THEN pc' = "cg_lock" /\ site' = "dirty"
       ELSE pc' = "read" /\ UNCHANGED site
    /\ UNCHANGED <<reads, other_writes, engine, del, readline, dirty, status,
                   logged, stream, files, highlighted, lock>>

\* The session thread alone.
repl ==
    \/ Read
    \/ CompileLock
    \/ ExportCallback
    \/ WriteJson
    \/ WriteDot
    \/ CompileDot
    \/ Match
    \/ ArmLock
    \/ ArmGraphCommand
    \/ ArmSearch
    \/ ArmPrint
    \/ IfDirty

SpecRepl == Init /\ [][repl]_vars

\* The places where repl can wait or has stopped: the prompt when the input
\* holds no further line, the two lock requests while the lock is not free,
\* and after repl has returned.  Everywhere else its next statement can run.
CanStep ==
    CASE pc = "read" -> reads < MaxReads
      [] pc = "cg_lock" -> write_available
      [] pc = "arm_lock" ->
           IF readline.command.op \in {"GraphCommand", "Search"}
           THEN write_available
           ELSE read_available
      [] pc = "done" -> FALSE
      [] OTHER -> TRUE

\* The session thread alone, and it keeps running: repl is one sequential
\* loop, so it does not stay for ever where its next statement can run.
\* This is WF_vars(repl) with ENABLED <<repl>>_vars written out as CanStep.
SpecReplFair == SpecRepl /\ ([]<>~CanStep \/ []<><<repl>>_vars)

\* Another holder of the Arc<RwLock<Graph>> takes the write guard ...
OtherLock ==
    /\ other_writes < MaxOtherWrites
    /\ other_writes' = other_writes + 1
    /\ write_available
    /\ writer' = "other"
    /\ UNCHANGED <<reads, engine, del, pc, site, readline, dirty, status, logged,
                   stream, files, highlighted, readers, poisoned>>

\* ... applies a command under it and drops it ...
OtherApply ==
    /\ writer = "other"
    /\ \E c \in ReplGraphCommands :
         /\ Offered([kind |-> "Ok", command |-> [op |-> "GraphCommand", c |-> c]])
         /\ \/ c.op = "InsertNode" /\ InsertNode(c.label)
            \/ c.op = "DeleteNode" /\ DeleteNode(c.id)
            \/ c.op = "LinkEdge" /\ LinkEdge(c.from, c.to)
            \/ c.op = "RenameNode" /\ RenameNode(c.id, c.label)
            \/ c.op = "UnlinkEdge" /\ UnlinkEdge(c.id)
    /\ writer' = "none"
    /\ UNCHANGED <<reads, other_writes, del, pc, site, readline, dirty, status,
                   logged, stream, files, highlighted, readers, poisoned>>

\* ... or panics while holding it, which poisons the lock.
OtherPanic ==
    /\ writer = "other"
    /\ writer' = "none"
    /\ poisoned' = TRUE
    /\ UNCHANGED <<reads, other_writes, engine, del, pc, site, readline, dirty,
                   status, logged, stream, files, highlighted, readers>>

\* The session thread and another thread that writes the Graph.
NextThreads ==
    \/ repl
    \/ OtherLock
    \/ OtherApply
    \/ OtherPanic

SpecThreads == Init /\ [][NextThreads]_vars

(* ------------------- DeleteNode, statement by statement ---------------- *)
\* A bug DeleteNode could have: the node is removed before its edges.
DeleteNode_begin_node_first(id) ==
    LET idx == find_node_idx(nodes, id) IN
    /\ del = NoDelete
    /\ IF idx # None
       THEN /\ del' = [active |-> TRUE, id |-> id, idx |-> idx, i |-> 1,
                       edges_touching |-> edges_touching(edges, id, 1, <<>>)]
            /\ nodes' = remove(nodes, idx)
            /\ UNCHANGED <<edges, command, result, scenario, calls, outputs, exporter>>
       ELSE /\ UNCHANGED <<nodes, edges, del>>
            /\ Applied([op |-> "DeleteNode", id |-> id],
                       "node " \o Join(id) \o " not found")
    /\ UNCHANGED <<node_high_water, edge_high_water, issued_nodes, issued_edges>>

\* The lookup and the first loop: the node is found and the ids of the edges
\* touching it are collected; nothing is removed yet.  An unknown id returns.
DeleteNode_begin(id) ==
    LET idx == find_node_idx(nodes, id) IN
    /\ del = NoDelete
    /\ IF idx # None
       THEN /\ del' = [active |-> TRUE, id |-> id, idx |-> idx, i |-> 1,
                       edges_touching |-> edges_touching(edges, id, 1, <<>>)]
            /\ UNCHANGED <<nodes, edges, command, result, scenario, calls, outputs,
                           exporter>>
       ELSE /\ UNCHANGED <<nodes, edges, del>>
            /\ Applied([op |-> "DeleteNode", id |-> id],
                       "node " \o Join(id) \o " not found")
    /\ UNCHANGED <<node_high_water, edge_high_water, issued_nodes, issued_edges>>

\* One iteration of the second loop: self.edges.remove(idx) of a listed edge.
DeleteNode_edge ==
    /\ del.active
    /\ del.i <= Len(del.edges_touching)
    /\ edges' = (IF find_edge_idx(edges, del.edges_touching[del.i]) # None
                 THEN remove(edges, find_edge_idx(edges, del.edges_touching[del.i]))
                 ELSE edges)
    /\ del' = [del EXCEPT !.i = @ + 1]
    /\ UNCHANGED <<node_high_water, edge_high_water, nodes, command, result,
                   issued_nodes, issued_edges, scenario, exporter, calls, outputs>>

\* After the loop: self.nodes.remove(idx) and the result.
DeleteNode_node ==
    /\ del.active
    /\ del.i > Len(del.edges_touching)
    /\ nodes' = remove(nodes, del.idx)
    /\ del' = NoDelete
    /\ Applied([op |-> "DeleteNode", id |-> del.id],
               "node " \o Join(del.id) \o " removed")
    /\ UNCHANGED <<node_high_water, edge_high_water, edges, issued_nodes, issued_edges>>

\* The other commands mutate the Graph in one statement; apply_command has
\* the Graph exclusively (&mut self), so none starts inside a DeleteNode.
NextSteps ==
    \/ (\E id \in NodeIdInputs : DeleteNode_begin(id)) /\ UNCHANGED repl_vars
    \/ DeleteNode_edge /\ UNCHANGED repl_vars
    \/ DeleteNode_node /\ UNCHANGED repl_vars
    \/ /\ del = NoDelete
       /\ UNCHANGED repl_vars
       /\ \/ \E label \in Labels : InsertNode(label)
          \/ \E from \in NodeIdInputs, to \in NodeIdInputs : LinkEdge(from, to)
          \/ \E id \in NodeIdInputs, label \in Labels : RenameNode(id, label)
          \/ \E id \in EdgeIdInputs : UnlinkEdge(id)
       /\ UNCHANGED del

SpecSteps == Init /\ [][NextSteps]_vars

(* ============================== claims ================================= *)
Present(ns, id) == \E i \in 1..Len(ns) : ns[i].id = id

Elems(v) == { v[i] : i \in 1..Len(v) }

Keep(v, Test(_)) == SelectSeq(v, Test)

N0 == <<"n", "0">>
N1 == <<"n", "1">>
E0 == <<"e", "0">>

\* C1: DeleteNode{id} of a present node removes exactly that node and every
\* edge whose from or to is id (self-loops and parallel edges included), keeps
\* every other node and edge in place and in order, and no surviving edge has
\* from or to equal to id.
C1_DeleteNodeCascades ==
    [][ (command'.op = "DeleteNode" /\ Present(nodes, command'.id)) =>
          LET id == command'.id
              OtherNode(n) == n.id # id
              Untouched(e) == e.from # id /\ e.to # id
          IN /\ nodes' = Keep(nodes, OtherNode)
             /\ Len(nodes') = Len(nodes) - 1
             /\ edges' = Keep(edges, Untouched)
             /\ \A i \in 1..Len(edges') : edges'[i].from # id /\ edges'[i].to # id
      ]_vars

\* A DeleteNode of n0 has just removed n0 while a self-loop on n1 survives
\* and the other issued edge is gone.
C1_Witness ==
    /\ command = [op |-> "DeleteNode", id |-> N0]
    /\ result = "node n0 removed"
    /\ edge_high_water = 2
    /\ Len(edges) = 1
    /\ edges[1].from = N1 /\ edges[1].to = N1

\* C2: LinkEdge{from,to} leaves nodes, edges and both counters unchanged if
\* and only if from or to is not the id of a present node; when both are
\* present (from = to and an already existing from/to pair included) exactly
\* one edge is appended, and its from and to are the given ids.
C2_LinkEdgeIffBothPresent ==
    [][ command'.op = "LinkEdge" =>
          LET from == command'.from
              to == command'.to
              missing == ~Present(nodes, from) \/ ~Present(nodes, to)
          IN /\ (graph' = graph) <=> missing
             /\ ~missing =>
                  /\ nodes' = nodes
                  /\ Len(edges') = Len(edges) + 1
                  /\ SubSeq(edges', 1, Len(edges)) = edges
                  /\ edges'[Len(edges')].from = from
                  /\ edges'[Len(edges')].to = to
                  /\ edge_high_water' = edge_high_water + 1
      ]_vars

\* A second edge n0 -> n0 has just been added next to an identical one.
C2_Witness ==
    /\ command = [op |-> "LinkEdge", from |-> N0, to |-> N0]
    /\ Len(edges) = 2
    /\ edges[1].from = N0 /\ edges[1].to = N0
    /\ edges[2].from = N0 /\ edges[2].to = N0
    /\ edges[1].id # edges[2].id

\* C3: when an endpoint of LinkEdge{from,to} is missing the result names the
\* first missing one, from before to: the source whenever from is absent
\* (also when to is absent too), the target only when from is present.
C3_FirstMissingEndpointReported ==
    [][ command'.op = "LinkEdge" =>
          LET from == command'.from
              to == command'.to
          IN /\ ~Present(nodes, from) =>
                  result' = "source node " \o Join(from) \o " not found"
             /\ (Present(nodes, from) /\ ~Present(nodes, to)) =>
                  result' = "target node " \o Join(to) \o " not found"
      ]_vars

\* A LinkEdge of two different ids was applied to a graph without nodes (both
\* endpoints missing) and the source was reported.
C3_Witness ==
    /\ nodes = <<>>
    /\ command.op = "LinkEdge"
    /\ command.from # command.to
    /\ result = "source node " \o Join(command.from) \o " not found"

\* C4: the node ids issued are n0, n1, ... and the edge ids issued are
\* e0, e1, ..., each kind counted from 0 by its own counter; an issued id
\* differs from every id of its kind issued before it, also after deletions,
\* and every id in the graph is an issued one.
C4_IdsIssuedInOrderNeverReused ==
    /\ \A i \in 1..Len(issued_nodes) : Join(issued_nodes[i]) = "n" \o ToString(i - 1)
    /\ \A i \in 1..Len(issued_edges) : Join(issued_edges[i]) = "e" \o ToString(i - 1)
    /\ \A i, j \in 1..Len(issued_nodes) : i < j => issued_nodes[i] # issued_nodes[j]
    /\ \A i, j \in 1..Len(issued_edges) : i < j => issued_edges[i] # issued_edges[j]
    /\ \A i, j \in 1..Len(nodes) : i < j => nodes[i].id # nodes[j].id
    /\ \A i, j \in 1..Len(edges) : i < j => edges[i].id # edges[j].id
    /\ \A i \in 1..Len(nodes) : nodes[i].id \in Elems(issued_nodes)
    /\ \A i \in 1..Len(edges) : edges[i].id \in Elems(issued_edges)

\* An InsertNode has just issued the second node id and an edge id was issued
\* too, while the graph holds one node and no edge: ids were issued after
\* their predecessors were deleted.
C4_Witness ==
    /\ command.op = "InsertNode"
    /\ Len(issued_nodes) = 2
    /\ Len(nodes) = 1
    /\ Len(issued_edges) = 1
    /\ edges = <<>>

\* C5: RenameNode{id,label} of a present node changes that node's label and
\* nothing else: its id and position, every other node, every edge and both
\* counters stay as they were.
C5_RenameChangesOnlyLabel ==
    [][ (command'.op = "RenameNode" /\ Present(nodes, command'.id)) =>
          /\ Len(nodes') = Len(nodes)
          /\ \A i \in 1..Len(nodes) :
                /\ nodes'[i].id = nodes[i].id
                /\ nodes'[i].label = (IF nodes[i].id = command'.id
                                      THEN command'.label ELSE nodes[i].label)
          /\ edges' = edges
          /\ node_high_water' = node_high_water
          /\ edge_high_water' = edge_high_water
      ]_vars

\* The second of two nodes, which has an edge, has just been renamed to a
\* label the first node does not carry.
C5_Witness ==
    /\ command.op = "RenameNode"
    /\ command.id = N1
    /\ Len(nodes) = 2
    /\ nodes[2].id = N1
    /\ nodes[2].label = command.label
    /\ nodes[1].label # command.label
    /\ \E i \in 1..Len(edges) : edges[i].to = N1

\* C6: DeleteNode, RenameNode and UnlinkEdge with an id that is not present
\* change neither nodes, edges nor counters and return the not-found message.
C6_UnknownIdIsNoOp ==
    [][ /\ (command'.op \in {"DeleteNode", "RenameNode"} /\ ~Present(nodes, command'.id)) =>
            /\ graph' = graph
            /\ result' = (IF command'.op = "DeleteNode"
                          THEN "node " \o Join(command'.id) \o " not found"
                          ELSE "Could not find node " \o Join(command'.id))
        /\ (command'.op = "UnlinkEdge" /\ ~Present(edges, command'.id)) =>
            /\ graph' = graph
            /\ result' = "edge " \o Join(command'.id) \o " not found"
      ]_vars

\* An UnlinkEdge of e0, issued earlier and no longer present, has just
\* reported not found on a graph that still holds an edge.
C6_Witness ==
    /\ command = [op |-> "UnlinkEdge", id |-> E0]
    /\ result = "edge e0 not found"
    /\ Len(edges) = 1
    /\ edge_high_water = 2

\* An export of the live exporter has delivered its callbacks.
Exported == exporter # NoExporter /\ exporter.exports > 0

\* C7: Graph::export calls add_node once per present node, in creation
\* order, with the node's id and label, and then add_edge once per present
\* edge, in creation order, with the edge's id, from and to; no node
\* callback follows an edge callback and nothing deleted is reported.
C7_ExportCallbacksInOrder ==
    Exported =>
      calls = [i \in 1..Len(nodes) |->
                 [fn |-> "add_node", args |-> <<nodes[i].id, nodes[i].label>>]]
              \o [i \in 1..Len(edges) |->
                 [fn |-> "add_edge",
                  args |-> <<edges[i].id, edges[i].from, edges[i].to>>]]

\* C8: exports of the same Graph with no command applied in between return
\* identical output: what an export returns does not depend on the exports
\* made before it.
C8_ExportTwiceIdentical ==
    \A i, j \in 1..Len(outputs) : outputs[i] = outputs[j]

\* C9: the callbacks of one Graph::export carry the node set (id, label) and
\* the edge set (id, from, to) of the Graph, whatever the counters are.
C9_ExportCarriesNodeAndEdgeSets ==
    Exported =>
      /\ { c.args : c \in { x \in Elems(calls) : x.fn = "add_node" } }
           = { <<n.id, n.label>> : n \in Elems(nodes) }
      /\ { c.args : c \in { x \in Elems(calls) : x.fn = "add_edge" } }
           = { <<e.id, e.from, e.to>> : e \in Elems(edges) }

\* C10: from an empty Graph, InsertNode("abc"), InsertNode("def"),
\* LinkEdge(n0,n1), DeleteNode(n0) issue n0, n1 and e0 (from n0 to n1) in
\* that order and leave exactly the node n1 labelled "def" and no edge.
C10_ScenarioInsertLinkDelete ==
    /\ scenario = 1 =>
         /\ issued_nodes = <<N0>>
         /\ result = "inserted node n0: 'abc'"
         /\ nodes = <<[id |-> N0, label |-> <<"a", "b", "c">>]>>
    /\ scenario = 2 =>
         /\ issued_nodes = <<N0, N1>>
         /\ result = "inserted node n1: 'def'"
    /\ scenario = 3 =>
         /\ issued_edges = <<E0>>
         /\ result = "Added edge e0 from n0 to n1"
         /\ edges = <<[id |-> E0, from |-> N0, to |-> N1]>>
    /\ scenario = 4 =>
         /\ result = "node n0 removed"
         /\ nodes = <<[id |-> N1, label |-> <<"d", "e", "f">>]>>
         /\ edges = <<>>
         /\ issued_nodes = <<N0, N1>>
         /\ issued_edges = <<E0>>

\* The four commands of the scenario, and nothing else, were applied.
C10_Witness ==
    /\ scenario = Len(Scenario)
    /\ command = Scenario[Len(Scenario)]

\* C15: in every reachable state of the Graph, the states between the
\* statements of a DeleteNode included, the from and the to of every edge
\* are ids of nodes present: the edges touching a node are removed before
\* the node, and an edge is created only after both endpoints were found.
C15_ReferentialIntegrity ==
    \A i \in 1..Len(edges) :
        Present(nodes, edges[i].from) /\ Present(nodes, edges[i].to)

\* Inside a DeleteNode: one of two edges touching the node has been removed,
\* the other and the node are still there.
C15_Witness ==
    /\ del.active
    /\ Len(del.edges_touching) = 2
    /\ del.i = 2
    /\ Len(edges) = 1
    /\ Present(nodes, del.id)

\* A GraphCommand whose identifiers the Graph does not hold.
UserMistake(c) ==
    CASE c.op \in {"DeleteNode", "RenameNode"} -> ~Present(nodes, c.id)
      [] c.op = "LinkEdge" -> ~Present(nodes, c.from) \/ ~Present(nodes, c.to)
      [] c.op = "UnlinkEdge" -> ~Present(edges, c.id)
      [] OTHER -> FALSE

C12_WriteFailureKeepsSession ==
    status = Running \/ ~(status.end = "Err" /\ status.cause = "write")

\* C13: when graphviz::compile fails in a render pass, the step that ran
\* compile_dot logs the failure message and repl keeps running.
C13_CompileFailureLogged ==
    [][(pc = "cg_compile" /\ compile_result' # compile_dot(TRUE, TRUE))
       => /\ logged' = Append(logged, compile_result')
          /\ status' = Running]_vars

\* The line read last asks the session to end cleanly.
CleanEnd ==
    \/ readline.kind \in {"Interrupted", "Eof"}
    \/ readline.kind = "Ok" /\ readline.command.op = "Exit"

\* C14: once repl has ended, it ended with Ok if the line read last was
\* Exit, end-of-input or an interrupt, and it ended with Err exactly if
\* that read failed with another readline error.
C14_LoopEndsByInput ==
    pc = "done" =>
        /\ CleanEnd => status.end = "Ok"
        /\ status.end = "Err" <=> readline.kind = "Err"

\* The session is inside a Graph::export or between the two exports of one
\* render pass.
Exporting == pc \in {"cg_json", "cg_dot", "print"}

\* C16: while an export of the session is under way the session holds a
\* guard of the Graph lock and no step of any thread changes the Graph, so
\* the callbacks of one pass all describe one Graph.
C16_ExportSeesOneSnapshot ==
    [][Exporting
       => /\ writer = "session" \/ "session" \in readers
          /\ graph' = graph]_vars

\* The render pass is between its two callbacks for a Graph that the other
\* thread has written.
C16_Witness ==
    /\ pc = "cg_json"
    /\ other_writes > 0
    /\ Len(nodes) = 1
    /\ Len(edges) = 1
    /\ Len(stream) = 1

\* C17: a write guard excludes every other guard; the session applies a
\* command and highlights a search under the write guard; and it runs its
\* read-only exports under a read guard.
C17_LockDiscipline ==
    /\ writer # "none" => readers = {}
    /\ pc = "arm" => writer = "session"
    /\ Exporting => "session" \in readers

\* C18: when repl has returned Ok (Exit, end-of-input, interrupt), the json
\* and dot files hold the export of the Graph as the last applied command
\* left it.
C18_LastRenderAtExit ==
    (pc = "done" /\ status.end = "Ok") =>
        /\ json_file = [exists |-> TRUE,
                        content |-> export_json(Graph_export(nodes, edges))]
        /\ dot_file = [exists |-> TRUE,
                       content |-> export_dot(Graph_export(nodes, edges))]

\* Exit was read after an InsertNode had been applied.
C18_Witness ==
    /\ pc = "done"
    /\ status.end = "Ok"
    /\ readline.kind = "Ok"
    /\ readline.command.op = "Exit"
    /\ command.op = "InsertNode"
    /\ Len(nodes) = 1

\* C19: the step that ends a match arm sets dirty exactly if it changed the
\* Graph, or the command was a Search or a Save; and the end of the loop
\* body starts a render pass only if dirty is set.
C19_DirtyIffChanged ==
    [][/\ (pc # "dirty" /\ pc' = "dirty")
          => (dirty' <=> \/ graph' # graph
                         \/ readline.command.op \in {"Search", "Save"})
       /\ (pc = "dirty" /\ ~dirty) => pc' # "cg_lock"]_vars

\* C20: a session step that acquires the Graph lock and finds it poisoned
\* ends repl with an error (Err returned by compile_graph, a panic in the
\* arms), and once repl has ended the session reads no line, applies no
\* command and keeps its outcome.
C20_PoisonedLockIsFatal ==
    [][/\ (pc \in {"cg_lock", "arm_lock"} /\ poisoned /\ pc' # pc)
          => /\ pc' = "done"
             /\ status'.end \in {"Err", "Panic"}
             /\ status'.cause = "lock"
             /\ graph' = graph
       /\ pc = "done"
          => /\ pc' = "done"
             /\ status' = status
             /\ reads' = reads
             /\ readline' = readline]_vars

\* The other thread panicked under its guard after the render pass at the
\* top of the loop, and the arm's unwrap ended the session.
C20_Witness ==
    /\ pc = "done"
    /\ poisoned
    /\ status = [end |-> "Panic", cause |-> "lock"]
    /\ readline.kind = "Ok"
    /\ readline.command.op = "GraphCommand"

\* C21: when the session asks compile_graph for the write lock it holds no
\* guard of its own, so the request is granted; and in the session alone
\* every iteration that took a guard in a match arm goes on to the next
\* read, unless repl returns first.
C21_NoSelfDeadlock ==
    /\ [](pc = "cg_lock" => (writer # "session" /\ "session" \notin readers
                              /\ write_available))
    /\ (pc \in {"arm", "print"}) ~> (pc \in {"read", "done"})

\* A Search took the write guard, gave it back, the render pass after it
\* took the lock again, and the loop is at its next read.
C21_Witness ==
    /\ pc = "read"
    /\ reads = 1
    /\ site = "dirty"
    /\ readline.kind = "Ok"
    /\ readline.command.op = "Search"
    /\ writer = "none"
    /\ readers = {}

====
